---- MODULE Spec2Model ----
(***************************************************************************)
(* A model of the BeyondTrust integration layer:                           *)
(*   src/beyond_trust_client.py  BeyondTrustClient (token cache, request   *)
(*                               executor, paginated fetch, provisioning)  *)
(*   src/function_app.py         GetBeyondTrustData (inline fetch and the  *)
(*                               per-group installer summary)              *)
(*                                                                         *)
(* The upstream (BeyondTrust) is the environment: every response is drawn  *)
(* from a small set when the request is issued.  _get_access_token is      *)
(* modelled statement by statement, because its reads and writes of the    *)
(* client's token fields are what interleave when one client instance is   *)
(* shared between invocations.                                             *)
(***************************************************************************)
EXTENDS Integers, Sequences, FiniteSets, TLC

VARIABLES
  \* ---- BeyondTrustClient fields (shared by every thread using the client)
  access_token,       \* self._access_token
  token_type,         \* self._token_type
  token_expires_at,   \* self._token_expires_at
  \* ---- environment
  now,                \* time.time(), in seconds
  ticks,              \* how often the clock has advanced
  exchanges,          \* number of POSTs to /oauth2/token issued so far
  \* ---- per-thread control state of _get_access_token
  pc,                 \* thread -> position
  token_data,         \* thread -> decoded body of the thread's exchange
  ret,                \* thread -> the (token, scheme) pair being returned
  exc,                \* thread -> the exception raised, or NoExc
  calls,              \* thread -> number of calls started
  prevExc,            \* thread -> how the thread's previous call ended
  \* ---- history of the current call of each thread
  entry,              \* thread -> cache fields and clock seen by line 28
  callExch,           \* thread -> exchanges issued by the current call
  serial,             \* thread -> serial number of the current call's exchange
  storedAt,           \* thread -> clock value read by line 50
  \* ---- history of the cache: which exchange wrote each field
  origin,             \* [tok, typ, exp] -> serial (0: the constructor)
  retOrigin,          \* thread -> [tok, typ] -> serial of the fields returned
  \* ---- the operation in progress and its locals
  op,                 \* "none", or the operation the invocation runs
  req,                \* the request _make_api_request was called with
  page_data,          \* decoded body of the last 2xx response
  all_installers,     \* the list being accumulated
  current_page,       \* the 1-based page counter
  \* ---- create_jump_group_with_permissions
  permissions_map,    \* the (group_name, permissions) items in insertion order
  entry_idx,          \* the item the for loop is at (0: before the loop)
  created_jump_group, \* decoded body of the creation response
  jump_group_id,      \* created_jump_group.get('id')
  result,             \* the value the operation returned
  \* ---- GetBeyondTrustData
  env,                \* the three settings: the environment variables as read
                      \* by the handler, the arguments of the constructor
  h_token,            \* access_token and token_type of the handler
  jump_group_map,     \* jump group id -> name
  output,             \* installer_details_output
  status_code,        \* status of the HttpResponse returned (0: none yet)
  \* ---- history of the requests sent to the API, with their responses
  log

tokenVars == <<access_token, token_type, token_expires_at, now, ticks, exchanges,
               pc, token_data, ret, exc, calls, prevExc, entry, callExch, serial,
               storedAt, origin, retOrigin>>

handlerVars == <<env, h_token, jump_group_map, output, status_code>>

provVars == <<permissions_map, entry_idx, created_jump_group, jump_group_id, result>>

appVars == <<op, req, page_data, all_installers, current_page, log, handlerVars,
             provVars>>

vars == <<tokenVars, appVars>>

----------------------------------------------------------------------------
(* Bounds of the model *)

\* calls of _get_access_token per thread
MaxCalls == 2
\* advances of the clock
MaxTicks == 2

(* Program constants *)

\* the 60-second buffer of line 28
ExpiryBuffer == 60
\* the default of token_data.get('expires_in', 3600), line 49
DefaultExpiresIn == 3600

\* Python's None where an integer id is expected (upstream ids are >= 1)
None == 0

\* Python's None in a string-valued field
NoneValue == "<None>"
\* no exception
NoExc == "<none>"

\* Python truthiness of a string-or-None value
Truthy(v) == v # NoneValue /\ v # ""

\* raise_for_status() left out
HttpError_Never(status) == FALSE

\* requests.Response.raise_for_status(): raises HTTPError for 4xx and 5xx
HttpError(status) == 400 <= status /\ status < 600

\* the least element of a set of numbers
Min(S) == CHOOSE x \in S : \A y \in S : x <= y

\* dict.get(key, default)
Get(d, k, default) == IF k \in DOMAIN d THEN d[k] ELSE default

----------------------------------------------------------------------------
(* The upstream's answers to POST {site_url}/oauth2/token *)

\* the clock advances by one of these amounts
TickSteps == {1, 59}

\* a JSON object with no keys
EmptyBody == [k \in {} |-> ""]

TokPart == {EmptyBody, "access_token" :> "", "access_token" :> "tokA"}
TypPart == {EmptyBody, "token_type" :> "MAC"}
ExpPart == {EmptyBody, "expires_in" :> 61, "expires_in" :> 120}

\* a 2xx answer carries a JSON object with any of the three keys
AuthBodies == {a @@ b @@ c : a \in TokPart, b \in TypPart, c \in ExpPart}

\* transport "error": the connection failed and there is no response
AuthFailures ==
  [transport : {"ok"}, status : {401}, body : {EmptyBody}]
    \cup [transport : {"error"}, status : {0}, body : {EmptyBody}]

AuthResponses == [transport : {"ok"}, status : {200}, body : AuthBodies] \cup AuthFailures

\* the answers used where the requests that follow are what is examined: a
\* token that stays valid, and the failures
AuthResponsesValid ==
  [transport : {"ok"}, status : {200},
   body : {"access_token" :> "tokA" @@ "expires_in" :> 61}]
    \cup AuthFailures

\* the answers used where the token is not what is examined: a token that
\* stays valid, one that is inside the buffer as soon as it is stored, and
\* the failures
AuthResponsesLean ==
  [transport : {"ok"}, status : {200},
   body : {"access_token" :> "tokA" @@ "expires_in" :> 61,
           "access_token" :> "tokA" @@ "token_type" :> "MAC" @@ "expires_in" :> 60}]
    \cup AuthFailures

----------------------------------------------------------------------------
(* BeyondTrustClient._get_access_token, statement by statement *)

Threads == DOMAIN pc

NoEntry == [checked |-> FALSE, tok |-> NoneValue, typ |-> NoneValue, exp |-> 0,
            at |-> 0, origin |-> [tok |-> 0, typ |-> 0, exp |-> 0]]
NoRet == [tok |-> NoneValue, typ |-> NoneValue]
NoRetOrigin == [tok |-> 0, typ |-> 0]

\* the comparison of line 28 turned round
CacheValid_Reversed == Truthy(access_token) /\ now > token_expires_at - ExpiryBuffer

\* line 28: the cached token is present and outside the 60-second buffer
CacheValid == Truthy(access_token) /\ now < token_expires_at - ExpiryBuffer

\* no call made before this one
NoCall == "<no call>"

\* a call of _get_access_token begins: fresh locals, control at line 28
EnterToken(t) ==
  /\ pc' = [pc EXCEPT ![t] = "L28"]
  /\ token_data' = [token_data EXCEPT ![t] = EmptyBody]
  /\ ret' = [ret EXCEPT ![t] = NoRet]
  /\ retOrigin' = [retOrigin EXCEPT ![t] = NoRetOrigin]
  /\ exc' = [exc EXCEPT ![t] = NoExc]
  /\ prevExc' = [prevExc EXCEPT ![t] = IF calls[t] = 0 THEN NoCall ELSE exc[t]]
  /\ entry' = [entry EXCEPT ![t] = NoEntry]
  /\ callExch' = [callExch EXCEPT ![t] = 0]
  /\ serial' = [serial EXCEPT ![t] = 0]
  /\ storedAt' = [storedAt EXCEPT ![t] = 0]
  /\ calls' = [calls EXCEPT ![t] = @ + 1]

\* a caller invokes _get_access_token on the shared client
T_Call(t) ==
  /\ pc[t] \in {"idle", "tok_ret", "tok_raised"}
  /\ calls[t] < MaxCalls
  /\ EnterToken(t)
  /\ UNCHANGED <<access_token, token_type, token_expires_at, now, ticks,
                 exchanges, origin>>
  /\ UNCHANGED appVars

\* line 28 testing the token only, not its expiry
T_L28_IgnoreExpiry(t) ==
  /\ pc[t] = "L28"
  /\ entry' = [entry EXCEPT ![t] =
                 [checked |-> TRUE, tok |-> access_token, typ |-> token_type,
                  exp |-> token_expires_at, at |-> now, origin |-> origin]]
  /\ pc' = [pc EXCEPT ![t] = IF Truthy(access_token) THEN "L30" ELSE "L43"]
  /\ UNCHANGED <<access_token, token_type, token_expires_at, now, ticks,
                 exchanges, token_data, ret, exc, calls, prevExc, callExch,
                 serial, storedAt, origin, retOrigin>>
  /\ UNCHANGED appVars

\* line 28: if self._access_token and time.time() < self._token_expires_at - 60
T_L28(t) ==
  /\ pc[t] = "L28"
  /\ entry' = [entry EXCEPT ![t] =
                 [checked |-> TRUE, tok |-> access_token, typ |-> token_type,
                  exp |-> token_expires_at, at |-> now, origin |-> origin]]
  /\ pc' = [pc EXCEPT ![t] = IF CacheValid THEN "L30" ELSE "L43"]
  /\ UNCHANGED <<access_token, token_type, token_expires_at, now, ticks,
                 exchanges, token_data, ret, exc, calls, prevExc, callExch, serial,
                 storedAt, origin, retOrigin>>
  /\ UNCHANGED appVars

\* line 30, first operand of the returned tuple: self._access_token
T_L30(t) ==
  /\ pc[t] = "L30"
  /\ ret' = [ret EXCEPT ![t].tok = access_token]
  /\ retOrigin' = [retOrigin EXCEPT ![t].tok = origin.tok]
  /\ pc' = [pc EXCEPT ![t] = "L30b"]
  /\ UNCHANGED <<access_token, token_type, token_expires_at, now, ticks,
                 exchanges, token_data, exc, calls, prevExc, entry, callExch, serial,
                 storedAt, origin>>
  /\ UNCHANGED appVars

\* line 30, second operand: self._token_type; the call returns
T_L30b(t) ==
  /\ pc[t] = "L30b"
  /\ ret' = [ret EXCEPT ![t].typ = token_type]
  /\ retOrigin' = [retOrigin EXCEPT ![t].typ = origin.typ]
  /\ pc' = [pc EXCEPT ![t] = "tok_ret"]
  /\ UNCHANGED <<access_token, token_type, token_expires_at, now, ticks,
                 exchanges, token_data, exc, calls, prevExc, entry, callExch, serial,
                 storedAt, origin>>
  /\ UNCHANGED appVars

\* lines 43-45: POST /oauth2/token, raise_for_status(), response.json()
T_L43(t, R) ==
  /\ pc[t] = "L43"
  /\ \E r \in R :
       /\ exchanges' = exchanges + 1
       /\ serial' = [serial EXCEPT ![t] = exchanges + 1]
       /\ callExch' = [callExch EXCEPT ![t] = @ + 1]
       /\ IF r.transport = "error"
          THEN /\ exc' = [exc EXCEPT ![t] = "requests.ConnectionError"]
               /\ pc' = [pc EXCEPT ![t] = "tok_raised"]
               /\ UNCHANGED token_data
          ELSE IF HttpError(r.status)
          THEN /\ exc' = [exc EXCEPT ![t] = "HTTPError"]
               /\ pc' = [pc EXCEPT ![t] = "tok_raised"]
               /\ UNCHANGED token_data
          ELSE /\ token_data' = [token_data EXCEPT ![t] = r.body]
               /\ pc' = [pc EXCEPT ![t] = "L47"]
               /\ UNCHANGED exc
  /\ UNCHANGED <<access_token, token_type, token_expires_at, now, ticks,
                 ret, calls, prevExc, entry, storedAt, origin, retOrigin>>
  /\ UNCHANGED appVars

\* line 47: self._access_token = token_data.get('access_token')
T_L47(t) ==
  /\ pc[t] = "L47"
  /\ access_token' = Get(token_data[t], "access_token", NoneValue)
  /\ origin' = [origin EXCEPT !.tok = serial[t]]
  /\ pc' = [pc EXCEPT ![t] = "L48"]
  /\ UNCHANGED <<token_type, token_expires_at, now, ticks, exchanges,
                 token_data, ret, exc, calls, prevExc, entry, callExch, serial,
                 storedAt, retOrigin>>
  /\ UNCHANGED appVars

\* line 48: self._token_type = token_data.get('token_type', 'Bearer')
T_L48(t) ==
  /\ pc[t] = "L48"
  /\ token_type' = Get(token_data[t], "token_type", "Bearer")
  /\ origin' = [origin EXCEPT !.typ = serial[t]]
  /\ pc' = [pc EXCEPT ![t] = "L50"]
  /\ UNCHANGED <<access_token, token_expires_at, now, ticks, exchanges,
                 token_data, ret, exc, calls, prevExc, entry, callExch, serial,
                 storedAt, retOrigin>>
  /\ UNCHANGED appVars

\* lines 49-50 without the time.time() term
T_L50_NoClock(t) ==
  /\ pc[t] = "L50"
  /\ token_expires_at' = Get(token_data[t], "expires_in", DefaultExpiresIn)
  /\ storedAt' = [storedAt EXCEPT ![t] = now]
  /\ origin' = [origin EXCEPT !.exp = serial[t]]
  /\ pc' = [pc EXCEPT ![t] = "L52"]
  /\ UNCHANGED <<access_token, token_type, now, ticks, exchanges,
                 token_data, ret, exc, calls, prevExc, entry, callExch, serial,
                 retOrigin>>
  /\ UNCHANGED appVars

\* lines 49-50: self._token_expires_at = time.time() + expires_in
T_L50(t) ==
  /\ pc[t] = "L50"
  /\ token_expires_at' = now + Get(token_data[t], "expires_in", DefaultExpiresIn)
  /\ storedAt' = [storedAt EXCEPT ![t] = now]
  /\ origin' = [origin EXCEPT !.exp = serial[t]]
  /\ pc' = [pc EXCEPT ![t] = "L52"]
  /\ UNCHANGED <<access_token, token_type, now, ticks, exchanges,
                 token_data, ret, exc, calls, prevExc, entry, callExch, serial,
                 retOrigin>>
  /\ UNCHANGED appVars

\* lines 52-53 left out: no test of the token just stored
T_L52_NoCheck(t) ==
  /\ pc[t] = "L52"
  /\ pc' = [pc EXCEPT ![t] = "L56"]
  /\ UNCHANGED exc
  /\ UNCHANGED <<access_token, token_type, token_expires_at, now, ticks,
                 exchanges, token_data, ret, calls, prevExc, entry, callExch,
                 serial, storedAt, origin, retOrigin>>
  /\ UNCHANGED appVars

\* lines 52-53: if not self._access_token: raise ConnectionError
T_L52(t) ==
  /\ pc[t] = "L52"
  /\ IF Truthy(access_token)
     THEN /\ pc' = [pc EXCEPT ![t] = "L56"]
          /\ UNCHANGED exc
     ELSE /\ pc' = [pc EXCEPT ![t] = "tok_raised"]
          /\ exc' = [exc EXCEPT ![t] = "ConnectionError"]
  /\ UNCHANGED <<access_token, token_type, token_expires_at, now, ticks,
                 exchanges, token_data, ret, calls, prevExc, entry, callExch, serial,
                 storedAt, origin, retOrigin>>
  /\ UNCHANGED appVars

\* line 56, first operand of the returned tuple: self._access_token
T_L56(t) ==
  /\ pc[t] = "L56"
  /\ ret' = [ret EXCEPT ![t].tok = access_token]
  /\ retOrigin' = [retOrigin EXCEPT ![t].tok = origin.tok]
  /\ pc' = [pc EXCEPT ![t] = "L56b"]
  /\ UNCHANGED <<access_token, token_type, token_expires_at, now, ticks,
                 exchanges, token_data, exc, calls, prevExc, entry, callExch, serial,
                 storedAt, origin>>
  /\ UNCHANGED appVars

\* line 56, second operand: self._token_type; the call returns
T_L56b(t) ==
  /\ pc[t] = "L56b"
  /\ ret' = [ret EXCEPT ![t].typ = token_type]
  /\ retOrigin' = [retOrigin EXCEPT ![t].typ = origin.typ]
  /\ pc' = [pc EXCEPT ![t] = "tok_ret"]
  /\ UNCHANGED <<access_token, token_type, token_expires_at, now, ticks,
                 exchanges, token_data, exc, calls, prevExc, entry, callExch, serial,
                 storedAt, origin>>
  /\ UNCHANGED appVars

\* time.time() moves on between any two statements
Tick ==
  /\ ticks < MaxTicks
  /\ \E d \in TickSteps : now' = now + d
  /\ ticks' = ticks + 1
  /\ UNCHANGED <<access_token, token_type, token_expires_at, exchanges, pc,
                 token_data, ret, exc, calls, prevExc, entry, callExch, serial,
                 storedAt, origin, retOrigin>>
  /\ UNCHANGED appVars

----------------------------------------------------------------------------
(* The upstream's answers to the API requests *)

\* per_page of get_all_installers, _find_group_policy_by_name and the handler
PerPage == 100
\* the upstream serves at most this many pages of per_page records or more
MaxFullPages == 2

SiteUrl == "https://x.example"

\* the lengths of the pages the upstream serves
ShortSizes == {0, 37, PerPage - 1}
PageSizes == ShortSizes \cup {PerPage, PerPage + 1}

NoReq == [method |-> "GET", url |-> <<>>, params |-> <<>>]

\* a decoded 2xx body that is not a list (a JSON object)
\* with one key
NonList ==
  [kind |-> "object", of |-> "error", page |-> 0, n |-> 1, items |-> <<>>, id |-> None]

\* a decoded 2xx body that is a list of n records, served as page p
ListPage(what, p, n) ==
  [kind |-> "list", of |-> what, page |-> p, n |-> n, items |-> <<>>, id |-> None]

\* a decoded 2xx body that is the list items
GivenList(items) ==
  [kind |-> "list", of |-> "given", page |-> 0, n |-> Len(items), items |-> items,
   id |-> None]

\* no isinstance test at all
IsList_Any(body) == TRUE

\* isinstance(page_data, list)
IsList(body) == body.kind = "list"

\* the test of the last page with <= for <
IsLastPage_LE(n) == n <= PerPage

\* the test of the last page with per_page - 1 for per_page
IsLastPage_OffByOne(n) == n < PerPage - 1

\* len(page_data) < per_page: the last page
IsLastPage(n) == n < PerPage

\* the i-th installer of page p
Installer(p, i) ==
  [installer_id |-> <<p, i>>,
   jump_group_id |-> 1 + (i % 2),
   name |-> "installer",
   expiration_timestamp |-> <<50, 48, 50, 48 + p, 48 + (i % 3)>>]

\* the i-th group policy of page p; items names the positions that hold a
\* policy with a name of interest
Policy(body, i) ==
  [id |-> (body.page - 1) * PerPage + i,
   name |-> IF \E k \in 1 .. Len(body.items) : body.items[k].pos = i
            THEN (CHOOSE m \in {body.items[k] : k \in 1 .. Len(body.items)} :
                    m.pos = i).name
            ELSE "some other policy"]

\* the records of a decoded list
Items(body) ==
  IF body.of = "given" THEN body.items
  ELSE IF body.of = "policy" THEN [i \in 1 .. body.n |-> Policy(body, i)]
  ELSE [i \in 1 .. body.n |-> Installer(body.page, i)]

ApiFailures ==
  [transport : {"ok"}, status : {500}, body : {NonList}]
    \cup [transport : {"error"}, status : {0}, body : {NonList}]

\* GET {site_url}/api/config/v1/jump-client/installer?per_page=&current_page=
InstallerUrl == <<SiteUrl, "/api/config/v1/jump-client/installer">>

InstallerReq(page) ==
  [method |-> "GET", url |-> InstallerUrl,
   params |-> [per_page |-> PerPage, current_page |-> page]]

\* the upstream's answers to a page request
PageBodies(what, page) ==
  {NonList} \cup
    {ListPage(what, page, n) :
       n \in IF page <= MaxFullPages THEN PageSizes ELSE ShortSizes}

\* the path of a request's URL
Path(r) == r.url[2]

\* the page a page request asks for: the current_page parameter, or the
\* number that the handler writes into the query string
PageOf(r) == IF Len(r.url) = 2 THEN r.params.current_page ELSE r.url[6]

\* GET {site_url}/api/config/v1/jump-group
JumpGroupUrl == <<SiteUrl, "/api/config/v1/jump-group">>

GroupNames == <<"Alpha", "Beta">>

\* the i-th jump group of the upstream
Group(i) == [id |-> i, name |-> GroupNames[i]]

\* the upstream's answers to the jump group request: its first n groups
GroupBodies == {NonList} \cup {GivenList([i \in 1 .. n |-> Group(i)]) : n \in 0 .. 2}

\* the upstream serves at most this many full pages of group policies
MaxPolicyFullPages == 1
\* the permissions_map has at most this many items
MaxEntries == 2

\* GET {site_url}/api/config/v1/group-policy?per_page=&current_page=
PolicyUrl == <<SiteUrl, "/api/config/v1/group-policy">>

PolicyReq(page) ==
  [method |-> "GET", url |-> PolicyUrl,
   params |-> [per_page |-> PerPage, current_page |-> page]]

\* POST {site_url}/api/config/v1/jump-group with name and code_name
CreateReq(name, code_name) ==
  [method |-> "POST", url |-> JumpGroupUrl,
   params |-> [name |-> name, code_name |-> code_name]]

\* POST {site_url}/api/config/v1/jump-group/{jump_group_id}/group-policy
PermissionUrl(id) == <<SiteUrl, "/api/config/v1/jump-group/", id, "/group-policy">>

\* lines 163-171 with the flags defaulting to True
PermissionReq_DefaultTrue(id, policy, permissions) ==
  [method |-> "POST", url |-> PermissionUrl(id),
   params |-> [group_policy_id |-> Get(policy, "id", None),
               session_start_permission |-> Get(permissions, "start_session", TRUE),
               session_manage_permission |-> Get(permissions, "manage", TRUE),
               is_admin |-> Get(permissions, "administrator", TRUE)]]

\* lines 163-171
PermissionReq(id, policy, permissions) ==
  [method |-> "POST", url |-> PermissionUrl(id),
   params |-> [group_policy_id |-> Get(policy, "id", None),
               session_start_permission |-> Get(permissions, "start_session", FALSE),
               session_manage_permission |-> Get(permissions, "manage", FALSE),
               is_admin |-> Get(permissions, "administrator", FALSE)]]

\* the group policy pages the upstream may serve as page number page, when
\* the policy of interest is named target: it is absent, first, last, or both
\* first and last
PolicyBodies(page, target) ==
  LET marks(n) == {<<>>,
                   <<[pos |-> 1, name |-> target]>>,
                   <<[pos |-> n, name |-> target]>>,
                   <<[pos |-> 1, name |-> target], [pos |-> n, name |-> target]>>}
      sizes == IF page <= MaxPolicyFullPages THEN {2, PerPage} ELSE {2}
  IN {NonList, ListPage("policy", page, 0)} \cup
       UNION {{[ListPage("policy", page, n) EXCEPT !.items = m] : m \in marks(n)} :
                n \in sizes}

\* the created jump group, with the id the upstream gave it or without an id
CreatedBodies ==
  {[kind |-> "object", of |-> "group", page |-> 0, n |-> 3, items |-> <<>>, id |-> i] :
     i \in {None, 7}}

\* the upstream's answers to the request r
ApiResponses(r) ==
  ApiFailures \cup
    [transport : {"ok"}, status : {200},
     body : IF Path(r) = InstallerUrl[2]
            THEN PageBodies("installer", PageOf(r))
            ELSE IF Path(r) = JumpGroupUrl[2] /\ r.method = "GET"
            THEN GroupBodies
            ELSE IF Path(r) = JumpGroupUrl[2]
            THEN CreatedBodies
            ELSE IF Path(r) = PolicyUrl[2]
            THEN PolicyBodies(PageOf(r), permissions_map[entry_idx].group_name)
            ELSE {NonList}]

----------------------------------------------------------------------------
(* BeyondTrustClient._make_api_request *)

\* lines 65-67 with a failed request answered as an empty list
R_L65_Swallow(t) ==
  /\ pc[t] = "tok_ret"
  /\ \E r \in ApiResponses(req) :
       /\ log' = Append(log, [req |-> req, auth |-> ret[t], resp |-> r,
                               entry |-> entry_idx])
       /\ page_data' = IF r.transport = "error" \/ HttpError(r.status)
                       THEN ListPage("installer", current_page, 0)
                       ELSE r.body
       /\ pc' = [pc EXCEPT ![t] = "resp"]
       /\ UNCHANGED exc
  /\ UNCHANGED <<access_token, token_type, token_expires_at, now, ticks,
                 exchanges, token_data, ret, calls, prevExc, entry, callExch,
                 serial, storedAt, origin, retOrigin>>
  /\ UNCHANGED <<op, req, all_installers, current_page, handlerVars, provVars>>

\* lines 61-67, once _get_access_token has returned: send the request with
\* the Authorization header, raise_for_status(), response.json()
R_L65(t) ==
  /\ pc[t] = "tok_ret"
  /\ \E r \in ApiResponses(req) :
       /\ log' = Append(log, [req |-> req, auth |-> ret[t], resp |-> r,
                               entry |-> entry_idx])
       /\ IF r.transport = "error"
          THEN /\ exc' = [exc EXCEPT ![t] = "requests.ConnectionError"]
               /\ pc' = [pc EXCEPT ![t] = "raised"]
               /\ UNCHANGED page_data
          ELSE IF HttpError(r.status)
          THEN /\ exc' = [exc EXCEPT ![t] = "HTTPError"]
               /\ pc' = [pc EXCEPT ![t] = "raised"]
               /\ UNCHANGED page_data
          ELSE /\ page_data' = r.body
               /\ pc' = [pc EXCEPT ![t] = "resp"]
               /\ UNCHANGED exc
  /\ UNCHANGED <<access_token, token_type, token_expires_at, now, ticks,
                 exchanges, token_data, ret, calls, prevExc, entry, callExch, serial,
                 storedAt, origin, retOrigin>>
  /\ UNCHANGED <<op, req, all_installers, current_page, handlerVars, provVars>>

\* an exception of _get_access_token or of the request leaves the operation
Raised(t) == pc[t] \in {"tok_raised", "raised"}

----------------------------------------------------------------------------
(* BeyondTrustClient.get_all_installers *)

\* lines 77-88: the locals, and the first call of _make_api_request
Inst_Start(t) ==
  /\ pc[t] = "idle"
  /\ op = "none"
  /\ op' = "installers"
  /\ all_installers' = <<>>
  /\ current_page' = 1
  /\ req' = InstallerReq(1)
  /\ EnterToken(t)
  /\ UNCHANGED <<access_token, token_type, token_expires_at, now, ticks,
                 exchanges, origin, page_data, log, handlerVars, provVars>>

\* lines 90-108: one pass of the loop body on the page just received, up to
\* the return or the next call of _make_api_request
Inst_Page(t) ==
  /\ op = "installers"
  /\ pc[t] = "resp"
  /\ IF ~IsList(page_data) \/ page_data.n = 0
     THEN /\ pc' = [pc EXCEPT ![t] = "returned"]
          /\ UNCHANGED <<all_installers, current_page, req, token_data, ret,
                         retOrigin, exc, entry, callExch, serial, storedAt,
                         calls, prevExc>>
     ELSE /\ all_installers' = all_installers \o Items(page_data)
          /\ IF IsLastPage(page_data.n)
             THEN /\ pc' = [pc EXCEPT ![t] = "returned"]
                  /\ UNCHANGED <<current_page, req, token_data, ret,
                                 retOrigin, exc, entry, callExch, serial,
                                 storedAt, calls, prevExc>>
             ELSE /\ current_page' = current_page + 1
                  /\ req' = InstallerReq(current_page + 1)
                  /\ EnterToken(t)
  /\ UNCHANGED <<access_token, token_type, token_expires_at, now, ticks,
                 exchanges, origin, op, page_data, log, handlerVars, provVars>>

----------------------------------------------------------------------------
(* BeyondTrustClient.create_jump_group_with_permissions *)

\* the items that the permissions_map arguments are made of: permission sets
\* with some, one or none of the three keys
AllEntries ==
  <<[group_name |-> "BBB General Members",
     permissions |-> "start_session" :> TRUE @@ "manage" :> TRUE],
    [group_name |-> "BBB Bomgar Administrators",
     permissions |-> "administrator" :> TRUE],
    [group_name |-> "Team A", permissions |-> EmptyBody],
    [group_name |-> "Team B", permissions |-> "manage" :> TRUE]>>

\* the maps the operation is called with
PermMaps == {SubSeq(AllEntries, 1, n) : n \in 0 .. MaxEntries}

\* line 157, continue, taken for break
AfterSkip_Break(k) == Len(permissions_map) + 1

\* line 157: continue with the item after item k
AfterSkip(k) == k + 1

\* line 174 returning the body of the last response
ReturnValue_LastResponse == page_data

\* line 174: return created_jump_group
ReturnValue == created_jump_group

\* lines 125-128 keeping the last policy of the page with the name
FirstMatch_Last(items, group_name) ==
  IF \E i \in 1 .. Len(items) : items[i].name = group_name
  THEN CHOOSE i \in 1 .. Len(items) :
         /\ items[i].name = group_name
         /\ \A j \in i + 1 .. Len(items) : items[j].name # group_name
  ELSE 0

\* lines 125-128: the first policy of the page whose name is group_name, or 0
FirstMatch(items, group_name) ==
  IF \E i \in 1 .. Len(items) : items[i].name = group_name
  THEN CHOOSE i \in 1 .. Len(items) :
         /\ items[i].name = group_name
         /\ \A j \in 1 .. i - 1 : items[j].name # group_name
  ELSE 0

\* the for loop of line 153 moves to item k: its policy lookup starts (lines
\* 154, 112-119), or the loop is over and line 174 returns
ToEntry(t, k) ==
  /\ entry_idx' = k
  /\ IF k > Len(permissions_map)
     THEN /\ result' = ReturnValue'
          /\ pc' = [pc EXCEPT ![t] = "returned"]
          /\ UNCHANGED <<current_page, req, token_data, ret, retOrigin, exc,
                         entry, callExch, serial, storedAt, calls, prevExc>>
     ELSE /\ current_page' = 1
          /\ req' = PolicyReq(1)
          /\ EnterToken(t)
          /\ UNCHANGED result

\* lines 144-148: the creation request
Prov_Start(t) ==
  /\ pc[t] = "idle"
  /\ op = "none"
  /\ op' = "create"
  /\ \E pm \in PermMaps : permissions_map' = pm
  /\ entry_idx' = 0
  /\ req' = CreateReq("ACME_Acme Corp", "acme")
  /\ EnterToken(t)
  /\ UNCHANGED <<access_token, token_type, token_expires_at, now, ticks,
                 exchanges, origin, page_data, all_installers, current_page,
                 log, handlerVars, created_jump_group, jump_group_id, result>>

\* lines 148-154 with the loop starting at the second item
Prov_Created_FromSecond(t) ==
  /\ op = "create"
  /\ pc[t] = "resp"
  /\ Path(req) = JumpGroupUrl[2]
  /\ UNCHANGED <<access_token, token_type, token_expires_at, now, ticks,
                 exchanges, origin, op, page_data, all_installers, log,
                 handlerVars, permissions_map>>
  /\ created_jump_group' = page_data
  /\ jump_group_id' = page_data.id
  /\ ToEntry(t, 2)

\* lines 148-154: the creation response, and the start of the loop
Prov_Created(t) ==
  /\ op = "create"
  /\ pc[t] = "resp"
  /\ Path(req) = JumpGroupUrl[2]
  /\ UNCHANGED <<access_token, token_type, token_expires_at, now, ticks,
                 exchanges, origin, op, page_data, all_installers, log,
                 handlerVars, permissions_map>>
  /\ created_jump_group' = page_data
  /\ jump_group_id' = page_data.id
  /\ ToEntry(t, 1)

\* _find_group_policy_by_name, lines 121-134, on the page just received, and
\* lines 155-171 of its caller when it returns
Prov_PolicyPage(t) ==
  /\ op = "create"
  /\ pc[t] = "resp"
  /\ Path(req) = PolicyUrl[2]
  /\ UNCHANGED <<access_token, token_type, token_expires_at, now, ticks,
                 exchanges, origin, op, page_data, all_installers, log,
                 handlerVars, permissions_map, created_jump_group,
                 jump_group_id>>
  /\ LET e == permissions_map[entry_idx]
         items == Items(page_data)
         hit == IF IsList(page_data) THEN FirstMatch(items, e.group_name) ELSE 0
     IN IF ~IsList(page_data) \/ (hit = 0 /\ IsLastPage(page_data.n))
        THEN ToEntry(t, AfterSkip(entry_idx))
        ELSE IF hit # 0
        THEN /\ req' = PermissionReq(jump_group_id, items[hit], e.permissions)
             /\ EnterToken(t)
             /\ UNCHANGED <<entry_idx, current_page, result>>
        ELSE /\ current_page' = current_page + 1
             /\ req' = PolicyReq(current_page + 1)
             /\ EnterToken(t)
             /\ UNCHANGED <<entry_idx, result>>

\* lines 171-172: the permission POST has answered 2xx; the next item
Prov_Assigned(t) ==
  /\ op = "create"
  /\ pc[t] = "resp"
  /\ Path(req) = PermissionUrl(jump_group_id)[2]
  /\ UNCHANGED <<access_token, token_type, token_expires_at, now, ticks,
                 exchanges, origin, op, page_data, all_installers, log,
                 handlerVars, permissions_map, created_jump_group,
                 jump_group_id>>
  /\ ToEntry(t, entry_idx + 1)

----------------------------------------------------------------------------
(* function_app.GetBeyondTrustData *)

NoEnv == [site_url |-> NoneValue, api_key |-> NoneValue, api_secret |-> NoneValue]
NoMap == [k \in {} |-> ""]

\* os.environ.get of the three variables: unset, empty or set
Envs == [site_url : {NoneValue, "", SiteUrl}, api_key : {NoneValue, "key"},
         api_secret : {NoneValue, "secret"}]
EnvsSet == [site_url : {SiteUrl}, api_key : {"key"}, api_secret : {"secret"}]

\* line 93: f"{base}?per_page={per_page}&current_page={current_page}"
HandlerPageReq(page) ==
  [method |-> "GET",
   url |-> <<env.site_url, InstallerUrl[2], "?per_page=", PerPage,
             "&current_page=", page>>,
   params |-> <<>>]

HandlerGroupReq ==
  [method |-> "GET", url |-> <<env.site_url, JumpGroupUrl[2]>>, params |-> <<>>]

\* line 77: {group['id']: group['name'] for group in all_jump_groups}; a later
\* group with the same id replaces an earlier one
GroupMap(groups) ==
  [k \in {groups[i].id : i \in 1 .. Len(groups)} |->
     LET last == CHOOSE i \in 1 .. Len(groups) :
                   /\ groups[i].id = k
                   /\ \A j \in 1 .. Len(groups) : groups[j].id = k => j <= i
     IN groups[last].name]

\* a comparison as of numbers: the shorter string first
RECURSIVE StrLess_ByLength(_, _)
StrLess_ByLength(a, b) ==
  IF Len(a) # Len(b) THEN Len(a) < Len(b)
  ELSE IF b = <<>> THEN FALSE
  ELSE IF Head(a) # Head(b) THEN Head(a) < Head(b)
  ELSE StrLess_ByLength(Tail(a), Tail(b))

\* str < str of Python: lexicographic on the code points; a string is the
\* sequence of its code points
RECURSIVE StrLess(_, _)
StrLess(a, b) ==
  IF b = <<>> THEN FALSE
  ELSE IF a = <<>> THEN TRUE
  ELSE IF Head(a) # Head(b) THEN Head(a) < Head(b)
  ELSE StrLess(Tail(a), Tail(b))

\* line 136: x.get('expiration_timestamp', '')
SortKey(x) == Get(x, "expiration_timestamp", <<>>)

\* merge of two runs sorted by descending key; on equal keys the element of
\* the earlier run comes first
RECURSIVE MergeDesc(_, _)
MergeDesc(a, b) ==
  IF a = <<>> THEN b
  ELSE IF b = <<>> THEN a
  ELSE IF StrLess(SortKey(Head(a)), SortKey(Head(b)))
  THEN <<Head(b)>> \o MergeDesc(a, Tail(b))
  ELSE <<Head(a)>> \o MergeDesc(Tail(a), b)

\* lines 134-138: sorted(installers_in_group, key=..., reverse=True), a stable
\* sort: elements with equal keys keep their relative order
RECURSIVE SortedDesc(_)
SortedDesc(xs) ==
  IF Len(xs) <= 1 THEN xs
  ELSE LET h == Len(xs) \div 2
       IN MergeDesc(SortedDesc(SubSeq(xs, 1, h)),
                    SortedDesc(SubSeq(xs, h + 1, Len(xs))))

\* the position of the bucket of group id gid, or 0
BucketIndex(buckets, gid) ==
  IF \E k \in 1 .. Len(buckets) : buckets[k].group_id = gid
  THEN CHOOSE k \in 1 .. Len(buckets) : buckets[k].group_id = gid
  ELSE 0

\* a new bucket put before the others
RECURSIVE InstallersByGroup_Front(_, _, _)
InstallersByGroup_Front(all, i, buckets) ==
  IF i > Len(all) THEN buckets
  ELSE LET gid == Get(all[i], "jump_group_id", None)
           k == BucketIndex(buckets, gid)
       IN InstallersByGroup_Front(all, i + 1,
            IF k = 0
            THEN <<[group_id |-> gid, installers |-> <<all[i]>>]>> \o buckets
            ELSE [buckets EXCEPT ![k].installers = Append(@, all[i])])

\* lines 125-129: installers_by_group, a dict in insertion order, after the
\* first i - 1 installers
RECURSIVE InstallersByGroup(_, _, _)
InstallersByGroup(all, i, buckets) ==
  IF i > Len(all) THEN buckets
  ELSE LET gid == Get(all[i], "jump_group_id", None)
           k == BucketIndex(buckets, gid)
       IN InstallersByGroup(all, i + 1,
            IF k = 0
            THEN Append(buckets, [group_id |-> gid, installers |-> <<all[i]>>])
            ELSE [buckets EXCEPT ![k].installers = Append(@, all[i])])

\* line 132: jump_group_map.get(group_id, f"Unknown Group (ID: {group_id})");
\* a name is the sequence of the fragments it is formatted from
GroupNameOf(map, gid) ==
  IF gid \in DOMAIN map THEN <<map[gid]>>
  ELSE <<"Unknown Group (ID: ", gid, ")">>

\* lines 145-146
DownloadUrl(site, installer_id, platform) ==
  <<site, "/download_client_connector?jc=", installer_id, "&p=", platform>>

\* an absent installer_id, name or expiration_timestamp
NoStamp == <<None>>

\* lines 131-155: the entry of one bucket
SummaryEntry(bucket, map, site) ==
  LET sorted_installers == SortedDesc(bucket.installers)
      latest == sorted_installers[1]
      installer_id == Get(latest, "installer_id", NoStamp)
  IN [JumpGroupName |-> GroupNameOf(map, bucket.group_id),
      InstallerName |-> Get(latest, "name", NoneValue),
      InstallerID |-> installer_id,
      ExpirationDate |-> Get(latest, "expiration_timestamp", NoStamp),
      WindowsDownloadURL |-> DownloadUrl(site, installer_id, "winNT-64-msi"),
      MacDownloadURL |-> DownloadUrl(site, installer_id, "mac-osx-x86")]

\* lines 121-158: installer_details_output
Summarize(all, map, site) ==
  IF all = <<>> THEN <<>>
  ELSE LET buckets == InstallersByGroup(all, 1, <<>>)
       IN [k \in 1 .. Len(buckets) |-> SummaryEntry(buckets[k], map, site)]

\* installers longer lists than this are not served as one short page
MaxInstallers == 3

GidPart == {EmptyBody, "jump_group_id" :> 1, "jump_group_id" :> 2}

\* no timestamp, "", "10" and "9"
StampPart == {EmptyBody, "expiration_timestamp" :> <<>>,
              "expiration_timestamp" :> <<49, 48>>,
              "expiration_timestamp" :> <<57>>}

\* the lists of at most MaxInstallers installers, the i-th with installer_id i
AggLists ==
  UNION {[1 .. n -> {g @@ x : g \in GidPart, x \in StampPart}] : n \in 0 .. MaxInstallers}

AggBodies ==
  {NonList} \cup
    {GivenList([i \in 1 .. Len(l) |-> ("installer_id" :> <<0, i>>) @@ l[i]]) : l \in AggLists}

\* the handler returns an HttpResponse with this status
Respond(code) ==
  /\ status_code' = code
  /\ pc' = [pc EXCEPT ![1] = "h_done"]

\* lines 167-182: the status of a failed request: the upstream's own status
\* for an HTTPError, 500 for any other exception
FailureStatus(r) == IF r.transport = "error" THEN 500 ELSE r.status

Failed(r) == r.transport = "error" \/ HttpError(r.status)

\* lines 18-31: read the environment and check it
H_Config(E) ==
  /\ pc[1] = "idle"
  /\ op = "none"
  /\ op' = "handler"
  /\ \E e \in E :
       /\ env' = e
       /\ IF ~Truthy(e.site_url) \/ ~Truthy(e.api_key) \/ ~Truthy(e.api_secret)
          THEN Respond(500)
          ELSE /\ pc' = [pc EXCEPT ![1] = "h_auth"]
               /\ UNCHANGED status_code
  /\ UNCHANGED <<access_token, token_type, token_expires_at, now, ticks,
                 exchanges, token_data, ret, exc, calls, prevExc, entry, callExch,
                 serial, storedAt, origin, retOrigin>>
  /\ UNCHANGED <<req, page_data, all_installers, current_page, log, h_token,
                 jump_group_map, output>>
  /\ UNCHANGED provVars

\* lines 34-48: POST {site_url}/oauth2/token with the Basic credentials
HandlerAuthReq ==
  [method |-> "POST", url |-> <<env.site_url, "/oauth2/token">>, params |-> <<>>]

\* lines 34-63: the token exchange of the handler
H_Auth(R) ==
  /\ op = "handler"
  /\ pc[1] = "h_auth"
  /\ exchanges' = exchanges + 1
  /\ \E r \in R :
       /\ log' = Append(log, [req |-> HandlerAuthReq,
                               auth |-> [tok |-> env.api_key, typ |-> "Basic"],
                               resp |-> r, entry |-> 0])
       /\ IF Failed(r)
          THEN /\ Respond(FailureStatus(r))
               /\ UNCHANGED h_token
          ELSE LET tok == Get(r.body, "access_token", NoneValue)
                   typ == Get(r.body, "token_type", NoneValue)
               IN IF ~Truthy(tok)
                  THEN /\ Respond(401)
                       /\ UNCHANGED h_token
                  ELSE /\ h_token' = [tok |-> tok, typ |-> typ]
                       /\ pc' = [pc EXCEPT ![1] = "h_groups"]
                       /\ UNCHANGED status_code
  /\ UNCHANGED <<access_token, token_type, token_expires_at, now, ticks,
                 token_data, ret, exc, calls, prevExc, entry, callExch,
                 serial, storedAt, origin, retOrigin>>
  /\ UNCHANGED <<op, req, page_data, all_installers, current_page, env,
                 jump_group_map, output>>
  /\ UNCHANGED provVars

\* lines 65-90: fetch the jump groups, build the id -> name map, and set up
\* the page loop; a body that is not a list of groups raises a TypeError in
\* line 77, which line 176 turns into a 500
H_JumpGroups ==
  /\ op = "handler"
  /\ pc[1] = "h_groups"
  /\ req' = HandlerGroupReq
  /\ \E r \in ApiResponses(HandlerGroupReq) :
       /\ log' = Append(log, [req |-> HandlerGroupReq, auth |-> h_token, resp |-> r,
                               entry |-> 0])
       /\ IF Failed(r)
          THEN /\ Respond(FailureStatus(r))
               /\ UNCHANGED <<page_data, jump_group_map, all_installers, current_page>>
          ELSE /\ page_data' = r.body
               /\ IF r.body.kind # "list"
                  THEN /\ Respond(500)
                       /\ UNCHANGED <<jump_group_map, all_installers, current_page>>
                  ELSE /\ jump_group_map' = GroupMap(Items(r.body))
                       /\ all_installers' = <<>>
                       /\ current_page' = 1
                       /\ pc' = [pc EXCEPT ![1] = "h_page"]
                       /\ UNCHANGED status_code
  /\ UNCHANGED <<access_token, token_type, token_expires_at, now, ticks,
                 exchanges, token_data, ret, exc, calls, prevExc, entry, callExch,
                 serial, storedAt, origin, retOrigin>>
  /\ UNCHANGED <<op, env, h_token, output>>
  /\ UNCHANGED provVars

\* lines 92-116: one pass of the page loop: the request and what is done with
\* its response
H_Page(B) ==
  /\ op = "handler"
  /\ pc[1] = "h_page"
  /\ req' = HandlerPageReq(current_page)
  /\ \E r \in ApiFailures \cup [transport : {"ok"}, status : {200}, body : B] :
       /\ log' = Append(log, [req |-> HandlerPageReq(current_page),
                               auth |-> h_token, resp |-> r, entry |-> 0])
       /\ IF Failed(r)
          THEN /\ Respond(FailureStatus(r))
               /\ UNCHANGED <<page_data, all_installers, current_page>>
          ELSE /\ page_data' = r.body
               /\ UNCHANGED status_code
               /\ IF ~IsList(r.body) \/ r.body.n = 0
                  THEN /\ pc' = [pc EXCEPT ![1] = "h_summary"]
                       /\ UNCHANGED <<all_installers, current_page>>
                  ELSE /\ all_installers' = all_installers \o Items(r.body)
                       /\ IF IsLastPage(r.body.n)
                          THEN /\ pc' = [pc EXCEPT ![1] = "h_summary"]
                               /\ UNCHANGED current_page
                          ELSE /\ current_page' = current_page + 1
                               /\ UNCHANGED pc
  /\ UNCHANGED <<access_token, token_type, token_expires_at, now, ticks,
                 exchanges, token_data, ret, exc, calls, prevExc, entry, callExch,
                 serial, storedAt, origin, retOrigin>>
  /\ UNCHANGED <<op, env, h_token, jump_group_map, output>>
  /\ UNCHANGED provVars

\* lines 118-165: group the installers, pick one per group, answer 200
H_Summary ==
  /\ op = "handler"
  /\ pc[1] = "h_summary"
  /\ output' = Summarize(all_installers, jump_group_map, env.site_url)
  /\ Respond(200)
  /\ UNCHANGED <<access_token, token_type, token_expires_at, now, ticks,
                 exchanges, token_data, ret, exc, calls, prevExc, entry, callExch,
                 serial, storedAt, origin, retOrigin>>
  /\ UNCHANGED <<op, req, page_data, all_installers, current_page, log, env,
                 h_token, jump_group_map>>
  /\ UNCHANGED provVars

----------------------------------------------------------------------------
(* BeyondTrustClient.__init__ and the specifications of the token cache *)

\* the state of a client used by the threads T, each thread at position at
InitState(T, at) ==
  /\ access_token = NoneValue
  /\ token_type = NoneValue
  /\ token_expires_at = 0
  /\ now = 0
  /\ ticks = 0
  /\ exchanges = 0
  /\ pc = [t \in T |-> at]
  /\ token_data = [t \in T |-> EmptyBody]
  /\ ret = [t \in T |-> NoRet]
  /\ exc = [t \in T |-> NoExc]
  /\ prevExc = [t \in T |-> NoCall]
  /\ calls = [t \in T |-> 0]
  /\ entry = [t \in T |-> NoEntry]
  /\ callExch = [t \in T |-> 0]
  /\ serial = [t \in T |-> 0]
  /\ storedAt = [t \in T |-> 0]
  /\ origin = [tok |-> 0, typ |-> 0, exp |-> 0]
  /\ retOrigin = [t \in T |-> NoRetOrigin]
  /\ op = "none"
  /\ req = NoReq
  /\ page_data = NonList
  /\ all_installers = <<>>
  /\ current_page = 0
  /\ log = <<>>
  /\ env = NoEnv
  /\ h_token = NoRet
  /\ jump_group_map = NoMap
  /\ output = <<>>
  /\ status_code = 0
  /\ permissions_map = <<>>
  /\ entry_idx = 0
  /\ created_jump_group = NonList
  /\ jump_group_id = None
  /\ result = NonList

\* lines 18-20 for a client used by the threads T
InitClient(T) == InitState(T, "idle")

Init == InitClient({1})

\* line 11 left out: the constructor takes any arguments
Ctor_NoCheck(E) ==
  /\ pc[1] = "new"
  /\ \E e \in E :
       /\ env' = e
       /\ pc' = [pc EXCEPT ![1] = "idle"]
       /\ UNCHANGED exc
  /\ UNCHANGED <<access_token, token_type, token_expires_at, now, ticks,
                 exchanges, token_data, ret, calls, prevExc, entry, callExch,
                 serial, storedAt, origin, retOrigin>>
  /\ UNCHANGED <<op, req, page_data, all_installers, current_page, log,
                 h_token, jump_group_map, output, status_code, provVars>>

\* lines 10-21: BeyondTrustClient(site_url, api_key, api_secret)
Ctor(E) ==
  /\ pc[1] = "new"
  /\ \E e \in E :
       /\ env' = e
       /\ IF ~(Truthy(e.site_url) /\ Truthy(e.api_key) /\ Truthy(e.api_secret))
          THEN /\ exc' = [exc EXCEPT ![1] = "ValueError"]
               /\ pc' = [pc EXCEPT ![1] = "raised"]
          ELSE /\ pc' = [pc EXCEPT ![1] = "idle"]
               /\ UNCHANGED exc
  /\ UNCHANGED <<access_token, token_type, token_expires_at, now, ticks,
                 exchanges, token_data, ret, calls, prevExc, entry, callExch,
                 serial, storedAt, origin, retOrigin>>
  /\ UNCHANGED <<op, req, page_data, all_installers, current_page, log,
                 h_token, jump_group_map, output, status_code, provVars>>

TokenStep(t, R) ==
  \/ T_L28(t)
  \/ T_L30(t)
  \/ T_L30b(t)
  \/ T_L43(t, R)
  \/ T_L47(t)
  \/ T_L48(t)
  \/ T_L50(t)
  \/ T_L52(t)
  \/ T_L56(t)
  \/ T_L56b(t)

Next ==
  \/ \E t \in Threads : T_Call(t)
  \/ \E t \in Threads : TokenStep(t, AuthResponses)
  \/ Tick

\* one invocation at a time uses the client
Spec == Init /\ [][Next]_vars

InitConc == InitClient({1, 2})

\* the overlap of two refreshes is short: the clock stands still
NextConc ==
  \/ \E t \in Threads : T_Call(t)
  \/ \E t \in Threads : TokenStep(t, AuthResponsesLean)

\* two invocations share one client instance
SpecConc == InitConc /\ [][NextConc]_vars

NextFetch ==
  \/ Inst_Start(1)
  \/ TokenStep(1, AuthResponsesLean)
  \/ R_L65(1)
  \/ Inst_Page(1)
  \/ Tick
  \/ H_Config(Envs)
  \/ H_Auth(AuthResponses)
  \/ H_JumpGroups
  \/ H_Page(PageBodies("installer", current_page))

\* one invocation fetches the installers, through the client or in the
\* handler, up to the end of the page loop
SpecFetch == Init /\ [][NextFetch]_vars

NextProv ==
  \/ Prov_Start(1)
  \/ TokenStep(1, AuthResponsesValid)
  \/ R_L65(1)
  \/ Prov_Created(1)
  \/ Prov_PolicyPage(1)
  \/ Prov_Assigned(1)

\* one invocation creates a jump group and assigns its permissions
SpecProv == Init /\ [][NextProv]_vars

NextAgg ==
  \/ H_Config(EnvsSet)
  \/ H_Auth(AuthResponsesLean)
  \/ H_JumpGroups
  \/ H_Page(AggBodies)
  \/ H_Summary

\* one invocation of the handler against an upstream with a few installers
SpecAgg == Init /\ [][NextAgg]_vars

\* before the constructor has run
InitCtor == InitState({1}, "new")

NextCtor ==
  \/ Ctor(Envs)
  \/ T_Call(1)
  \/ TokenStep(1, AuthResponsesLean)
  \/ Tick
  \/ H_Config(Envs)
  \/ H_Auth(AuthResponsesLean)

\* a client is constructed from its three arguments and used, or the handler
\* is invoked and reads its three settings
SpecCtor == InitCtor /\ [][NextCtor]_vars

NextPaging ==
  \/ Inst_Start(1)
  \/ Prov_Start(1)
  \/ TokenStep(1, AuthResponsesValid)
  \/ R_L65(1)
  \/ Inst_Page(1)
  \/ Prov_Created(1)
  \/ Prov_PolicyPage(1)
  \/ Prov_Assigned(1)

\* one invocation runs one of the two paginated operations of the client;
\* every call made returns or raises, so a step that can be taken is taken
SpecPaging == Init /\ [][NextPaging]_vars /\ WF_vars(NextPaging)

NextHandler ==
  \/ H_Config(Envs)
  \/ H_Auth(AuthResponses)
  \/ H_JumpGroups
  \/ H_Page(AggBodies)
  \/ H_Summary

\* one invocation of the handler, with any environment and any answers
SpecHandler == Init /\ [][NextHandler]_vars

----------------------------------------------------------------------------
(* Claims about the token cache *)

\* what line 28 saw was a token outside the 60-second buffer
EntryValid(t) ==
  /\ entry[t].checked
  /\ Truthy(entry[t].tok)
  /\ entry[t].at < entry[t].exp - ExpiryBuffer

\* what line 28 saw was no token, or a token inside the buffer
EntryStale(t) == entry[t].checked /\ ~EntryValid(t)

\* the cache fields are the ones line 28 saw
CacheAsAtEntry(t) ==
  /\ access_token = entry[t].tok
  /\ token_type = entry[t].typ
  /\ token_expires_at = entry[t].exp
  /\ origin = entry[t].origin

\* the cache fields are the ones the call's own exchange response gives
CacheFromResponse(t) ==
  /\ access_token = Get(token_data[t], "access_token", NoneValue)
  /\ token_type = Get(token_data[t], "token_type", "Bearer")
  /\ token_expires_at = storedAt[t] + Get(token_data[t], "expires_in", DefaultExpiresIn)
  /\ entry[t].at <= storedAt[t] /\ storedAt[t] <= now
  /\ origin = [tok |-> serial[t], typ |-> serial[t], exp |-> serial[t]]

\* C1: a call of _get_access_token that finds a cached token with
\* now < expiresAt - 60 issues no exchange request, leaves token, scheme and
\* expiry as they were, and returns the cached (token, scheme) pair.
C1_CachedTokenReused ==
  \A t \in Threads :
    EntryValid(t) =>
      /\ pc[t] \in {"L30", "L30b", "tok_ret"}
      /\ callExch[t] = 0
      /\ CacheAsAtEntry(t)
      /\ pc[t] = "tok_ret" =>
           /\ ret[t] = [tok |-> entry[t].tok, typ |-> entry[t].typ]
           /\ retOrigin[t] = [tok |-> entry[t].origin.tok, typ |-> entry[t].origin.typ]

\* a second call returned the token the first call cached
C1_Witness ==
  \E t \in Threads :
    /\ pc[t] = "tok_ret"
    /\ EntryValid(t)
    /\ calls[t] = 2
    /\ exchanges = 1

\* C2 as stated: every call that finds the cache empty or inside the buffer
\* ends with exactly one exchange issued and the cache fully replaced from
\* that one response.
C2_RefreshAlwaysReplaces ==
  \A t \in Threads :
    (EntryStale(t) /\ pc[t] \in {"tok_ret", "tok_raised"}) =>
      /\ callExch[t] = 1
      /\ CacheFromResponse(t)

\* C2 as amended: such a call issues exactly one exchange request; when the
\* exchange answers 2xx the cache is fully replaced from that one response
\* (token or None, scheme or "Bearer", expiry = clock at the store +
\* expires_in or 3600), also when the call then raises for want of a token;
\* when it answers non-2xx or the transport fails the cache is left as it was.
C2_RefreshReplacesOn2xx ==
  \A t \in Threads :
    EntryStale(t) =>
      /\ pc[t] \in {"L43", "L47", "L48", "L50", "L52", "L56", "L56b",
                    "tok_ret", "tok_raised"}
      /\ callExch[t] = (IF pc[t] = "L43" THEN 0 ELSE 1)
      /\ (pc[t] \in {"L52", "L56", "L56b", "tok_ret"}
            \/ (pc[t] = "tok_raised" /\ exc[t] = "ConnectionError"))
           => CacheFromResponse(t)
      /\ (pc[t] = "tok_raised" /\ exc[t] # "ConnectionError")
           => CacheAsAtEntry(t)
      /\ pc[t] = "tok_ret" =>
           /\ ret[t] = [tok |-> access_token, typ |-> token_type]
           /\ retOrigin[t] = [tok |-> serial[t], typ |-> serial[t]]

\* a token that had entered its buffer was replaced by a later call, after
\* the clock had moved
C2_Witness ==
  \E t \in Threads :
    /\ pc[t] = "tok_ret"
    /\ EntryStale(t)
    /\ Truthy(entry[t].tok)
    /\ storedAt[t] > 0
    /\ calls[t] = 2

\* no thread is between the first and the last of the three stores
NoStoreInProgress == \A t \in Threads : pc[t] \notin {"L48", "L50"}

\* C3: when refreshes of threads sharing one client interleave, the cached
\* (token, scheme, expiry) triple comes from a single exchange response
\* whenever no store is in progress, and the (token, scheme) pair a call
\* returns comes from a single response.
C3_TokenFieldsReplacedAsUnit ==
  /\ NoStoreInProgress => (origin.tok = origin.typ /\ origin.typ = origin.exp)
  /\ \A t \in Threads :
       pc[t] = "tok_ret" => retOrigin[t].tok = retOrigin[t].typ

----------------------------------------------------------------------------
(* Claims about the paginated fetch *)

\* the installer page requests sent so far, with their responses
PageLog == SelectSeq(log, LAMBDA e : Path(e.req) = InstallerUrl[2])

\* the per_page a page request asks for
PerPageOf(r) == IF Len(r.url) = 2 THEN r.params.per_page ELSE r.url[4]

\* the i-th page request was answered 2xx with a list
ServedList(i) == ~Failed(PageLog[i].resp) /\ PageLog[i].resp.body.kind = "list"

\* the i-th page request was answered 2xx with something that is not a list
ServedNonList(i) == ~Failed(PageLog[i].resp) /\ PageLog[i].resp.body.kind # "list"

\* the records of the pages 1 .. k in order
RECURSIVE ConcatPages(_)
ConcatPages(k) ==
  IF k = 0 THEN <<>> ELSE ConcatPages(k - 1) \o Items(PageLog[k].resp.body)

\* the fetch is over without an exception: get_all_installers has returned,
\* or the handler has left its page loop
FetchReturned ==
  \/ op = "installers" /\ pc[1] = "returned"
  \/ op = "handler" /\ pc[1] = "h_summary"

\* C4: the page requests are GETs with per_page = 100 and current_page =
\* 1, 2, 3, ...; a request follows only a page of 100 records or more; and
\* when every page served is a list, the fetch returns the concatenation, in
\* order, of the pages up to and including the first one shorter than 100.
C4_FetchConcatenatesPages ==
  LET k == Len(PageLog) IN
  /\ \A i \in 1 .. k :
       /\ PageLog[i].req.method = "GET"
       /\ PerPageOf(PageLog[i].req) = 100
       /\ PageOf(PageLog[i].req) = i
  /\ \A i \in 1 .. k - 1 : ServedList(i) /\ PageLog[i].resp.body.n >= 100
  /\ (FetchReturned /\ ServedList(k)) =>
       /\ PageLog[k].resp.body.n < 100
       /\ all_installers = ConcatPages(k)
       /\ current_page = k

\* pages of 100, 100 and 37 records gave 237 records in 3 requests
C4_Witness ==
  /\ op = "installers"
  /\ pc[1] = "returned"
  /\ Len(PageLog) = 3
  /\ PageLog[1].resp.body.n = 100
  /\ PageLog[2].resp.body.n = 100
  /\ PageLog[3].resp.body.n = 37
  /\ Len(all_installers) = 237

\* C5: when page k decodes to something that is not a list, the fetch stops
\* without raising, sends no further page request, and returns exactly the
\* records of pages 1 .. k-1.
C5_NonListPageStopsFetch ==
  LET k == Len(PageLog) IN
  /\ \A i \in 1 .. k - 1 : ~ServedNonList(i)
  /\ (k >= 1 /\ ServedNonList(k)) =>
       /\ ~Raised(1) /\ exc[1] = NoExc /\ status_code = 0
       /\ FetchReturned \/ (op = "installers" /\ pc[1] = "resp")
       /\ FetchReturned => all_installers = ConcatPages(k - 1)
       /\ current_page = k

\* a page of 100 records, then a page that is not a list: 100 records returned
C5_Witness ==
  /\ op = "installers"
  /\ pc[1] = "returned"
  /\ Len(PageLog) = 2
  /\ ServedNonList(2)
  /\ Len(all_installers) = 100

----------------------------------------------------------------------------
(* Claims about the installer summary *)

\* the handler has answered 200 with the summary of all_installers
Summarized == op = "handler" /\ pc[1] = "h_done" /\ status_code = 200

\* the jump_group_id of the i-th fetched installer (None when missing)
GidOf(i) ==
  IF "jump_group_id" \in DOMAIN all_installers[i]
  THEN all_installers[i].jump_group_id ELSE None

\* its expiration_timestamp ("" when missing)
StampOf(i) ==
  IF "expiration_timestamp" \in DOMAIN all_installers[i]
  THEN all_installers[i].expiration_timestamp ELSE <<>>

\* a is before b in the lexicographic order of strings
LexLess(a, b) ==
  \/ Len(a) < Len(b) /\ \A j \in 1 .. Len(a) : a[j] = b[j]
  \/ \E i \in 1 .. Len(a) :
       /\ i <= Len(b)
       /\ a[i] < b[i]
       /\ \A j \in 1 .. i - 1 : a[j] = b[j]

Gids == {GidOf(i) : i \in 1 .. Len(all_installers)}
Members(g) == {i \in 1 .. Len(all_installers) : GidOf(i) = g}
FirstOf(g) == CHOOSE i \in Members(g) : \A j \in Members(g) : i <= j

\* the member of group g with the greatest timestamp, the earliest of them
BestOf(g) ==
  CHOOSE i \in Members(g) :
    \A j \in Members(g) :
      /\ ~LexLess(StampOf(i), StampOf(j))
      /\ StampOf(j) = StampOf(i) => i <= j

\* the position of group g in the order of first occurrence
RankOf(g) == Cardinality({h \in Gids : FirstOf(h) <= FirstOf(g)})

\* C6: the entry of each group carries the installer of the group whose
\* expiration_timestamp is greatest in the lexicographic order of the raw
\* strings, a missing timestamp counting as ""; among equal timestamps the
\* first fetched wins.
C6_LatestInstallerPerGroup ==
  Summarized =>
    /\ \A g \in Gids :
         \E k \in 1 .. Len(output) :
           /\ output[k].InstallerID = all_installers[BestOf(g)].installer_id
           /\ output[k].ExpirationDate =
                Get(all_installers[BestOf(g)], "expiration_timestamp", NoStamp)
    /\ \A k \in 1 .. Len(output) :
         \E g \in Gids :
           output[k].InstallerID = all_installers[BestOf(g)].installer_id

\* one group with the timestamps "10", "9", "9": the second installer is taken
C6_Witness ==
  /\ Summarized
  /\ Len(all_installers) = 3
  /\ \A i \in 1 .. 3 : GidOf(i) = 1
  /\ StampOf(1) = <<49, 48>> /\ StampOf(2) = <<57>> /\ StampOf(3) = <<57>>
  /\ Len(output) = 1
  /\ output[1].InstallerID = <<0, 2>>

\* C7: the summary has one entry per distinct jump_group_id of the fetched
\* list (a missing id is a group of its own), in the order of first
\* occurrence, each named from the id-to-name map or "Unknown Group (ID:
\* {id})"; the buckets partition the list; an empty list gives no entry.
C7_OneEntryPerGroup ==
  Summarized =>
    LET buckets == InstallersByGroup(all_installers, 1, <<>>) IN
    /\ Len(output) = Cardinality(Gids)
    /\ all_installers = <<>> => output = <<>>
    /\ \A g \in Gids :
         LET k == RankOf(g) IN
         /\ k \in 1 .. Len(output)
         /\ output[k].JumpGroupName =
              (IF g \in DOMAIN jump_group_map
               THEN <<jump_group_map[g]>>
               ELSE <<"Unknown Group (ID: ", g, ")">>)
         /\ \E i \in Members(g) :
              output[k].InstallerID = all_installers[i].installer_id
         /\ buckets[k].group_id = g
         /\ Len(buckets[k].installers) = Cardinality(Members(g))
         /\ \A i \in Members(g) :
              \E j \in 1 .. Len(buckets[k].installers) :
                buckets[k].installers[j] = all_installers[i]
    /\ Len(buckets) = Cardinality(Gids)

\* three groups, first seen in the order 2, None, 1; only group 1 has a name
C7_Witness ==
  /\ Summarized
  /\ Len(all_installers) = 3
  /\ GidOf(1) = 2 /\ GidOf(2) = None /\ GidOf(3) = 1
  /\ DOMAIN jump_group_map = {1}
  /\ Len(output) = 3
  /\ output[1].JumpGroupName = <<"Unknown Group (ID: ", 2, ")">>
  /\ output[2].JumpGroupName = <<"Unknown Group (ID: ", None, ")">>
  /\ output[3].JumpGroupName = <<"Alpha">>

----------------------------------------------------------------------------
(* create_jump_group_with_permissions: what the requests it made show *)

IsPolicyGet(x) == x.req.method = "GET" /\ x.req.url = PolicyUrl
IsPermissionPost(x) == x.req.method = "POST" /\ Len(x.req.url) = 4
Is2xx(x) == x.resp.transport = "ok" /\ x.resp.status \in 200 .. 299
Non2xx(x) == x.resp.transport = "ok" /\ x.resp.status \notin 200 .. 299

\* the response that ends the lookup of its item with nothing found: not a
\* list, or a short page, with no policy of the item's name on it
FoundNothing(x) ==
  /\ IsPolicyGet(x)
  /\ Is2xx(x)
  /\ \/ x.resp.body.kind # "list"
     \/ /\ x.resp.body.n < PerPage
        /\ \A k \in 1 .. Len(x.resp.body.items) :
             x.resp.body.items[k].name # permissions_map[x.entry].group_name

\* the number of permission POSTs that were answered 2xx
AssignedCount ==
  Cardinality({i \in 1 .. Len(log) : IsPermissionPost(log[i]) /\ Is2xx(log[i])})

\* C8: when the policy lookup of an item finds nothing, no permission POST is
\* made for that item and, once the response is dealt with, no error is
\* raised; the loop goes on to the lookup of the next item, and after the
\* last item the call returns the created group.
C8_NotFoundSkipsEntry ==
  op = "create" =>
    \A i \in 1 .. Len(log) :
      FoundNothing(log[i]) =>
        LET e == log[i].entry
        IN /\ \A j \in 1 .. Len(log) :
                ~(IsPermissionPost(log[j]) /\ log[j].entry = e)
           /\ i < Len(log) =>
                log[i + 1].entry = e + 1 /\ log[i + 1].req = PolicyReq(1)
           /\ i = Len(log) /\ pc[1] # "resp" =>
                /\ ~Raised(1)
                /\ entry_idx = e + 1
                /\ e < Len(permissions_map) =>
                     req = PolicyReq(1) /\ pc[1] # "returned"
                /\ e = Len(permissions_map) =>
                     pc[1] = "returned" /\ result = log[1].resp.body

\* the first item was skipped, the second was assigned, the group returned
C8_Witness ==
  /\ op = "create"
  /\ pc[1] = "returned"
  /\ result = log[1].resp.body
  /\ \E i, j \in 1 .. Len(log) :
       /\ FoundNothing(log[i]) /\ log[i].entry = 1
       /\ IsPermissionPost(log[j]) /\ Is2xx(log[j]) /\ log[j].entry = 2

\* C9: a permission POST answered non-2xx is the last request of the call:
\* the call raises the HTTP error at that item, with no lookup and no POST
\* for a later item.
C9_PermissionFailurePropagates ==
  op = "create" =>
    \A i \in 1 .. Len(log) :
      IsPermissionPost(log[i]) /\ Non2xx(log[i]) =>
        /\ i = Len(log)
        /\ pc[1] = "raised"
        /\ exc[1] = "HTTPError"
        /\ entry_idx = log[i].entry

\* the POST of the first of two items failed
C9_Witness ==
  /\ op = "create"
  /\ pc[1] = "raised"
  /\ Len(permissions_map) = 2
  /\ \E i \in 1 .. Len(log) :
       IsPermissionPost(log[i]) /\ Non2xx(log[i]) /\ log[i].entry = 1

\* C10, as stated: once the group is created and every lookup is answered,
\* the call ends by returning the created group, however many permission
\* assignments succeeded.
C10_AlwaysReturnsCreatedGroup ==
  ( /\ op = "create"
    /\ pc[1] \in {"returned", "raised"}
    /\ Len(log) >= 1
    /\ Is2xx(log[1])
    /\ \A i \in 1 .. Len(log) : IsPolicyGet(log[i]) => Is2xx(log[i]) )
  => pc[1] = "returned" /\ result = log[1].resp.body

\* C10: whenever the call returns, it returns the body of the creation
\* response, whether the items were assigned or skipped.
C10_ReturnsCreatedGroup ==
  op = "create" /\ pc[1] = "returned" =>
    /\ log[1].req.method = "POST" /\ log[1].req.url = JumpGroupUrl
    /\ result = log[1].resp.body

\* returned with one of two items assigned
C10_Witness ==
  /\ op = "create"
  /\ pc[1] = "returned"
  /\ Len(permissions_map) = 2
  /\ AssignedCount = 1
  /\ result.id = 7

\* the policy that the lookup answered by x finds: the first one of the page
\* with the name of the item of x, as the index of its mark, or 0
MatchIn(x) ==
  IF IsPolicyGet(x) /\ Is2xx(x) /\ x.resp.body.kind = "list"
  THEN LET m == x.resp.body.items
           hits == {k \in 1 .. Len(m) :
                      m[k].name = permissions_map[x.entry].group_name}
       IN IF hits = {} THEN 0
          ELSE CHOOSE k \in hits : \A l \in hits : m[k].pos <= m[l].pos
  ELSE 0

\* the id of the policy at position pos of the page that answered x
PolicyIdAt(x, pos) == (x.req.params.current_page - 1) * PerPage + pos

\* the flag of the permission set, false when the set has no such key
Flag(permissions, key) ==
  IF key \in DOMAIN permissions THEN permissions[key] ELSE FALSE

\* the payload the item e is assigned with, for the policy with the id given
ExpectedPayload(e, id) ==
  [group_policy_id |-> id,
   session_start_permission |-> Flag(permissions_map[e].permissions, "start_session"),
   session_manage_permission |-> Flag(permissions_map[e].permissions, "manage"),
   is_admin |-> Flag(permissions_map[e].permissions, "administrator")]

----------------------------------------------------------------------------
(* GetBeyondTrustData: the status it answers with *)

\* the handler has answered
Answered == op = "handler" /\ pc[1] = "h_done"

\* one of the three settings is missing or empty
ConfigMissing ==
  ~Truthy(env.site_url) \/ ~Truthy(env.api_key) \/ ~Truthy(env.api_secret)

\* the last request the handler sent, with its response
LastExchange == log[Len(log)]

IsTokenRequest(x) == x.req.url[2] = "/oauth2/token"

\* the token response was 2xx and held no usable access token
LacksToken(x) ==
  /\ IsTokenRequest(x)
  /\ Is2xx(x)
  /\ ~Truthy(Get(x.resp.body, "access_token", NoneValue))

\* C12: the handler answers 500 when a setting is missing, 401 when the token
\* response holds no access token, the upstream's status when a later API
\* call is answered with an error status, 503 when a later API call fails at
\* the network level, and 200 when every request succeeded.
C12_HandlerStatusCodes ==
  Answered =>
    IF ConfigMissing THEN status_code = 500
    ELSE IF LacksToken(LastExchange) THEN status_code = 401
    ELSE IF ~IsTokenRequest(LastExchange) /\ LastExchange.resp.transport = "error"
    THEN status_code = 503
    ELSE IF ~IsTokenRequest(LastExchange) /\ Non2xx(LastExchange)
    THEN status_code = LastExchange.resp.status
    ELSE IF Is2xx(LastExchange) /\ LastExchange.resp.body.kind = "list"
    THEN status_code = 200
    ELSE TRUE

----------------------------------------------------------------------------
(* _get_access_token: failed exchanges *)

\* the exceptions of an exchange answered with an error status, and of one
\* whose body holds no access token
ExchangeErrors == {"HTTPError", "ConnectionError"}

\* the body of the exchange of the current call holds a usable access token
BodyHasToken == Truthy(Get(token_data[1], "access_token", NoneValue))

\* C13: an exchange answered with an error status raises the HTTP error with
\* the cache as line 28 saw it; a 2xx exchange whose body holds no access
\* token raises the error of line 53, and a call returns after an exchange
\* only when the body held one; a call that raised returned nothing; and the
\* call after either failure does not take the cached route: it issues
\* exactly one new exchange and returns only what that exchange stored.
C13_FailedExchange ==
  /\ pc[1] = "tok_raised" /\ exc[1] = "HTTPError" =>
       /\ callExch[1] = 1
       /\ ret[1] = NoRet
       /\ token_data[1] = EmptyBody
       /\ CacheAsAtEntry(1)
  /\ pc[1] = "tok_raised" /\ exc[1] = "ConnectionError" =>
       /\ callExch[1] = 1
       /\ ret[1] = NoRet
       /\ ~BodyHasToken
  /\ pc[1] \in {"L56", "L56b", "tok_ret"} /\ callExch[1] = 1 => BodyHasToken
  /\ prevExc[1] \in ExchangeErrors =>
       /\ pc[1] \notin {"L30", "L30b"}
       /\ pc[1] \in {"tok_ret", "tok_raised"} => callExch[1] = 1
       /\ pc[1] = "tok_ret" =>
            /\ ret[1].tok = Get(token_data[1], "access_token", NoneValue)
            /\ retOrigin[1].tok = serial[1]

\* after a token-less body and after an error status, the next call got its
\* token from a new exchange
C13_Witness ==
  /\ prevExc[1] \in ExchangeErrors
  /\ pc[1] = "tok_ret"
  /\ callExch[1] = 1
  /\ exchanges >= 2
  /\ ret[1].tok = "tokA"

----------------------------------------------------------------------------
(* Missing settings *)

\* C14: with the site URL, the API key or the API secret missing or empty,
\* the constructor raises and the client is never used, and the handler
\* answers 500; in both cases no token request and no API request is sent.
C14_MissingConfigFailsFast ==
  /\ op = "none" /\ pc[1] # "new" /\ ConfigMissing =>
       /\ pc[1] = "raised"
       /\ exc[1] = "ValueError"
       /\ calls[1] = 0
       /\ exchanges = 0
       /\ log = <<>>
  /\ op = "handler" /\ ConfigMissing =>
       /\ Answered
       /\ status_code = 500
       /\ exchanges = 0
       /\ log = <<>>
  /\ exchanges > 0 \/ log # <<>> => ~ConfigMissing

\* the constructor has raised for an empty site URL
C14_Witness ==
  /\ pc[1] = "raised"
  /\ exc[1] = "ValueError"
  /\ env.site_url = ""
  /\ env.api_key = "key"
  /\ exchanges = 0

----------------------------------------------------------------------------
(* _find_group_policy_by_name: the pages it reads *)

\* the requests of the lookup of item e, as indices of the log
Lookups(e) == {i \in 1 .. Len(log) : IsPolicyGet(log[i]) /\ log[i].entry = e}

\* the lookup of item e reported not-found: the loop went past the item
\* without a permission POST for it
NotFound(e) ==
  /\ e \in 1 .. Len(permissions_map)
  /\ e < entry_idx
  /\ \A j \in 1 .. Len(log) : ~(IsPermissionPost(log[j]) /\ log[j].entry = e)

\* the last request of the lookup of item e
LastLookup(e) == CHOOSE i \in Lookups(e) : \A j \in Lookups(e) : j <= i

\* the page is a list of fewer than 100 records without the name looked up
ShortWithoutMatch(x) ==
  /\ Is2xx(x)
  /\ x.resp.body.kind = "list"
  /\ x.resp.body.n < PerPage
  /\ MatchIn(x) = 0

\* the pages of a lookup are asked for in order, each after a full page
\* without the name, and none after a page with the name
LookupPagesInOrder ==
  \A i \in 1 .. Len(log) :
    IsPolicyGet(log[i]) =>
      /\ log[i].req.params.per_page = PerPage
      /\ IF i > 1 /\ IsPolicyGet(log[i - 1]) /\ log[i - 1].entry = log[i].entry
         THEN /\ log[i].req.params.current_page =
                   log[i - 1].req.params.current_page + 1
              /\ Is2xx(log[i - 1])
              /\ log[i - 1].resp.body.kind = "list"
              /\ log[i - 1].resp.body.n >= PerPage
              /\ MatchIn(log[i - 1]) = 0
         ELSE log[i].req.params.current_page = 1
      /\ MatchIn(log[i]) # 0 =>
           /\ \A j \in Lookups(log[i].entry) : j <= i
           /\ i < Len(log) =>
                log[i + 1].req.params.group_policy_id =
                  PolicyIdAt(log[i], Min({m.pos : m \in
                     {log[i].resp.body.items[k] :
                        k \in 1 .. Len(log[i].resp.body.items)}}))

\* C15, as stated: not-found is reported only when the lookup has read a
\* page of fewer than 100 records and no page up to it holds the name.
C15_NotFoundOnlyAfterShortPage ==
  op = "create" =>
    /\ LookupPagesInOrder
    /\ \A e \in 1 .. Len(permissions_map) :
         NotFound(e) => ShortWithoutMatch(log[LastLookup(e)])

\* C15: the policy used is the first of the name in page order and order
\* within the page, and no page is asked for after it; not-found is reported
\* only when every page read is without the name and the last one read is a
\* list of fewer than 100 records or is not a list.
C15_FirstMatchOrAllPagesScanned ==
  op = "create" =>
    /\ LookupPagesInOrder
    /\ \A e \in 1 .. Len(permissions_map) :
         NotFound(e) =>
           /\ Lookups(e) # {}
           /\ \/ ShortWithoutMatch(log[LastLookup(e)])
              \/ Is2xx(log[LastLookup(e)]) /\ log[LastLookup(e)].resp.body.kind # "list"
           /\ \A i \in Lookups(e) : MatchIn(log[i]) = 0

\* the name is on the second page twice, and the first of the two is used
C15_Witness ==
  /\ op = "create"
  /\ \E i \in 2 .. Len(log) :
       /\ IsPermissionPost(log[i])
       /\ IsPolicyGet(log[i - 1])
       /\ log[i - 1].req.params.current_page = 2
       /\ Len(log[i - 1].resp.body.items) = 2
       /\ log[i].req.params.group_policy_id = PerPage + 1

----------------------------------------------------------------------------
(* create_jump_group_with_permissions: the order of its requests *)

IsCreatePost(x) == x.req.method = "POST" /\ x.req.url = JumpGroupUrl

\* C16: the first API request of the call is the creation POST; a failed
\* creation is the only request of the call, which raises; every later
\* request follows a successful creation and is a policy lookup or a
\* permission POST; the items are taken in order from the first, each one
\* with its lookups first and then at most one permission POST, and no
\* request of an item comes after a request of a later item.
C16_CreationFirstThenEntriesInOrder ==
  op = "create" =>
    /\ Len(log) >= 1 =>
         /\ IsCreatePost(log[1])
         /\ log[1].entry = 0
         /\ ~Is2xx(log[1]) =>
              /\ Len(log) = 1
              /\ pc[1] = "raised"
              /\ entry_idx = 0
    /\ Len(log) = 0 => entry_idx = 0
    /\ \A i \in 2 .. Len(log) :
         /\ Is2xx(log[1])
         /\ IsPolicyGet(log[i]) \/ IsPermissionPost(log[i])
         /\ ~IsCreatePost(log[i])
         /\ log[i].entry \in 1 .. Len(permissions_map)
         /\ IF i = 2 THEN log[i].entry = 1 /\ IsPolicyGet(log[i])
            ELSE \/ /\ log[i].entry = log[i - 1].entry
                    /\ IsPolicyGet(log[i - 1])
                 \/ /\ log[i].entry = log[i - 1].entry + 1
                    /\ IsPolicyGet(log[i])

\* two items: the first looked up on two pages and assigned, then the second
C16_Witness ==
  /\ op = "create"
  /\ Len(log) = 5
  /\ IsPolicyGet(log[2]) /\ IsPolicyGet(log[3]) /\ IsPermissionPost(log[4])
  /\ log[4].entry = 1
  /\ IsPolicyGet(log[5]) /\ log[5].entry = 2

----------------------------------------------------------------------------
(* get_all_installers: failed page requests *)

\* C17: a page request of get_all_installers that is answered with an error
\* status or fails in transport is the last request of the call, which
\* raises that error whatever it has accumulated; a call that returns had
\* every page request answered 2xx.
C17_PageFailureAbortsFetch ==
  op = "installers" =>
    /\ \A i \in 1 .. Len(log) :
         ~Is2xx(log[i]) =>
           /\ i = Len(log)
           /\ pc[1] = "raised"
           /\ exc[1] = IF log[i].resp.transport = "error"
                       THEN "requests.ConnectionError" ELSE "HTTPError"
    /\ pc[1] = "returned" => \A i \in 1 .. Len(log) : Is2xx(log[i])
    /\ pc[1] = "raised" => ~Is2xx(log[Len(log)])

\* the third page request failed with 200 installers accumulated
C17_Witness ==
  /\ op = "installers"
  /\ pc[1] = "raised"
  /\ Len(log) = 3
  /\ Len(all_installers) = 2 * PerPage
  /\ Non2xx(log[3])

----------------------------------------------------------------------------
(* _make_api_request: the token a request is sent with *)

\* the request of the current call of _make_api_request has been sent
RequestSent == op \in {"installers", "create"} /\ pc[1] \in {"resp", "raised"}

\* C18: every request sent by _make_api_request follows, in the same call, a
\* check of the cache by line 28. When the check found the token present and
\* outside its 60-second buffer, the call made no exchange and the request
\* carries the token and scheme the check saw; when the check found the cache
\* empty or the token inside the buffer, the call made exactly one exchange
\* and the request carries the token that exchange stored, not the one that
\* failed the check.
C18_RequestFollowsTokenCheck ==
  RequestSent =>
    /\ entry[1].checked
    /\ log[Len(log)].req = req
    /\ log[Len(log)].auth = ret[1]
    /\ EntryValid(1) =>
         /\ callExch[1] = 0
         /\ ret[1] = [tok |-> entry[1].tok, typ |-> entry[1].typ]
         /\ retOrigin[1].tok = entry[1].origin.tok
    /\ EntryStale(1) =>
         /\ callExch[1] = 1
         /\ ret[1].tok = Get(token_data[1], "access_token", NoneValue)
         /\ retOrigin[1].tok = serial[1]
         /\ serial[1] > entry[1].origin.tok

\* in one pagination loop, the second page was sent with a token from a
\* second exchange, made because the first one had entered its buffer
C18_Witness ==
  /\ op = "installers"
  /\ pc[1] = "resp"
  /\ Len(log) = 2
  /\ Truthy(entry[1].tok)
  /\ EntryStale(1)
  /\ callExch[1] = 1
  /\ exchanges = 2

----------------------------------------------------------------------------
(* The two pagination loops of the client: how many pages they ask for *)

\* the page requests of one loop: of get_all_installers (e = 0), or of the
\* lookup of item e
LoopLog(e) ==
  IF e = 0 THEN PageLog
  ELSE SelectSeq(log, LAMBDA x : IsPolicyGet(x) /\ x.entry = e)

\* the number of records on the first k pages of a loop
RECURSIVE Served(_, _)
Served(L, k) == IF k = 0 THEN 0 ELSE Served(L, k - 1) + L[k].resp.body.n

\* the pages are those of an upstream that holds finitely many records and
\* serves them in consecutive pages of 100: lists of exactly 100 records, the
\* last one of 100 or fewer
ConsecutivePages(L) ==
  \A k \in 1 .. Len(L) :
    /\ Is2xx(L[k])
    /\ L[k].resp.body.kind = "list"
    /\ L[k].resp.body.n <= PerPage
    /\ k < Len(L) => L[k].resp.body.n = PerPage

\* the loop has ended by itself: get_all_installers has returned, or the
\* lookup of item e has reported not-found
LoopOver(e) ==
  IF e = 0 THEN op = "installers" /\ pc[1] = "returned" ELSE NotFound(e)

\* a loop asks for a further page only after a page of 100 records or more;
\* against an upstream of N records in consecutive pages of 100 it has made
\* at most N \div 100 + 1 requests, and exactly that many when it ends by
\* itself, the last one answered with the N % 100 remaining records
PageRequestsBounded ==
  \A e \in 0 .. Len(permissions_map) :
    LET L == LoopLog(e)
        N == Served(L, Len(L))
    IN /\ \A k \in 1 .. Len(L) - 1 :
            /\ Is2xx(L[k])
            /\ L[k].resp.body.kind = "list"
            /\ L[k].resp.body.n >= PerPage
       /\ ConsecutivePages(L) =>
            /\ Len(L) <= N \div PerPage + 1
            /\ LoopOver(e) =>
                 /\ Len(L) = N \div PerPage + 1
                 /\ L[Len(L)].resp.body.n = N % PerPage

\* the operation has returned or raised
Finished == pc[1] \in {"returned", "raised", "tok_raised"}

\* C19: both loops make at most N \div 100 + 1 page requests against an
\* upstream of N records served in consecutive pages of 100, go on only
\* after a page of 100 records or more, and the operation always ends.
C19_PaginationTerminates == []PageRequestsBounded /\ <>Finished

\* 200 installers were fetched in three requests, the third answered with an
\* empty page
C19_Witness ==
  /\ op = "installers"
  /\ pc[1] = "returned"
  /\ Len(PageLog) = 3
  /\ ConsecutivePages(PageLog)
  /\ Len(all_installers) = 2 * PerPage
  /\ PageLog[3].resp.body.n = 0

----------------------------------------------------------------------------
(* create_jump_group_with_permissions: the group the permissions go to *)

\* C20: every permission POST goes to the per-group endpoint of the id that
\* the creation response of the call holds, and none is sent when that
\* response holds no id.
C20_PermissionPostTargetsCreatedId ==
  op = "create" =>
    \A i \in 1 .. Len(log) :
      IsPermissionPost(log[i]) =>
        /\ Is2xx(log[1])
        /\ log[i].req.url = PermissionUrl(log[1].resp.body.id)
        /\ log[1].resp.body.id # None

====
